---------------------------- MODULE Spec2Model ----------------------------
(***************************************************************************)
(* Kohaku client: the signed-envelope codec and the auto-reconnecting      *)
(* WebSocketClient of src/client/core/comm.py.                             *)
(*                                                                         *)
(* Text is a sequence of one-character strings, so that splitting on ".",  *)
(* serialising and signing are computed on characters.                     *)
(***************************************************************************)
EXTENDS Integers, Sequences, FiniteSets, TLC

(***************************************************************************)
(* Program constants.                                                      *)
(***************************************************************************)
MinDelay == 5
MaxReconnectDelay == 30
ExpiryTolerance == 30
\* the longest title an embed takes, and what is kept of a longer question
MaxTitle == 256
TitleKeep == 250

(***************************************************************************)
(* Bounds of the model.                                                    *)
(***************************************************************************)
\* the wall clock read by time.time() in every run of the model
Now == 100
\* inbound frames the server delivers over the whole run
MaxFrames == 2
\* transports the server accepts over the whole run
MaxTransports == 2
\* the counter of consecutive failed connects saturates here
MaxFails == 5
\* seconds of a backoff wait that pass in one Tick
TickLen == 10

Min(a, b) == IF a < b THEN a ELSE b
Max(a, b) == IF a < b THEN b ELSE a
Abs(a) == IF a < 0 THEN 0 - a ELSE a

RECURSIVE Pow2(_)
Pow2(k) == IF k <= 0 THEN 1 ELSE 2 * Pow2(k - 1)

(***************************************************************************)
(* Characters.                                                             *)
(***************************************************************************)
Digits == <<"0", "1", "2", "3", "4", "5", "6", "7", "8", "9">>
HexDigits == Digits \o <<"a", "b", "c", "d", "e", "f">>

Alphabet ==
    HexDigits \o
    <<"g", "h", "i", "j", "k", "l", "m", "n", "o", "p", "q", "r", "s", "t",
      "u", "v", "w", "x", "y", "z", "_", "-", " ", ".", ",", ":", "\"",
      "{", "}", "[", "]">>

AlphabetSet == {Alphabet[i] : i \in DOMAIN Alphabet}

\* ord(c): the position of c in Alphabet
CharCode == [c \in AlphabetSet |-> CHOOSE i \in DOMAIN Alphabet : Alphabet[i] = c]

\* str(n) for an integer n >= 0
RECURSIVE Decimal(_)
Decimal(n) ==
    IF n < 10 THEN <<Digits[n + 1]>>
    ELSE Decimal(n \div 10) \o <<Digits[(n % 10) + 1]>>

\* data.split(sep): the parts of data between the delimiters
Split(data, sep) ==
    LET at == {i \in DOMAIN data : data[i] = sep}
        \* the k-th delimiter's position; 0 before the first, Len + 1 after the last
        cut(k) == IF k = 0 THEN 0
                  ELSE IF k > Cardinality(at) THEN Len(data) + 1
                  ELSE CHOOSE i \in at : Cardinality({j \in at : j < i}) = k - 1
    IN  [k \in 1..(Cardinality(at) + 1) |-> SubSeq(data, cut(k - 1) + 1, cut(k) - 1)]

(***************************************************************************)
(* JSON values.  Every value is a record of one shape: t is the kind, n    *)
(* the integer, s the text of a string, f the members of an object (or the *)
(* items of an array, with empty keys).                                    *)
(***************************************************************************)
JInt(n) == [t |-> "int", n |-> n, s |-> <<>>, f |-> <<>>]
JStr(s) == [t |-> "str", n |-> 0, s |-> s, f |-> <<>>]
JObj(f) == [t |-> "obj", n |-> 0, s |-> <<>>, f |-> f]
JArr(f) == [t |-> "arr", n |-> 0, s |-> <<>>, f |-> f]
JNull == [t |-> "null", n |-> 0, s |-> <<>>, f |-> <<>>]
Member(k, v) == [k |-> k, v |-> v]

Quote(s) == <<"\"">> \o s \o <<"\"">>

\* json.dumps(v) with the default separators ", " and ": "
RECURSIVE Dumps(_)
RECURSIVE DumpsMembers(_, _)
DumpsMembers(f, keyed) ==
    IF f = <<>> THEN <<>>
    ELSE (IF keyed THEN Quote(f[1].k) \o <<":", " ">> ELSE <<>>)
         \o Dumps(f[1].v)
         \o (IF Len(f) > 1 THEN <<",", " ">> ELSE <<>>)
         \o DumpsMembers(Tail(f), keyed)

Dumps(v) ==
    CASE v.t = "int" -> Decimal(v.n)
      [] v.t = "str" -> Quote(v.s)
      [] v.t = "obj" -> <<"{">> \o DumpsMembers(v.f, TRUE) \o <<"}">>
      [] v.t = "arr" -> <<"[">> \o DumpsMembers(v.f, FALSE) \o <<"]">>
      [] v.t = "null" -> <<"n", "u", "l", "l">>

\* d[key] of a dict: present, and the value
HasKey(v, key) == \E i \in DOMAIN v.f : v.f[i].k = key
GetKey(v, key) == v.f[CHOOSE i \in DOMAIN v.f : v.f[i].k = key].v
\* d.get(key): the value, or None
Get(v, key) == IF HasKey(v, key) THEN GetKey(v, key) ELSE JNull

(***************************************************************************)
(* Words of the protocol.                                                  *)
(***************************************************************************)
K_timestamp == <<"t", "i", "m", "e", "s", "t", "a", "m", "p">>
K_message_id == <<"m", "e", "s", "s", "a", "g", "e", "_", "i", "d">>
K_message == <<"m", "e", "s", "s", "a", "g", "e">>
K_type == <<"t", "y", "p", "e">>
K_id == <<"i", "d">>
K_data == <<"d", "a", "t", "a">>

\* MessageType
AUTHENTIFICATION == <<"a", "u", "t", "h">>
PING == <<"p", "i", "n", "g">>
PONG == <<"p", "o", "n", "g">>
NOTIFICATION == <<"n", "o", "t", "i", "f", "i", "c", "a", "t", "i", "o", "n">>

\* WsMessage(timestamp, message_id, message): the fields hold whatever
\* values they were given (Python does not check the annotations)
WsMessage(timestamp, message_id, message) ==
    [timestamp |-> timestamp, message_id |-> message_id, message |-> message]

\* WsMessage.to_dict
to_dict(m) ==
    JObj(<<Member(K_timestamp, m.timestamp),
           Member(K_message_id, m.message_id),
           Member(K_message, m.message)>>)

(***************************************************************************)
(* hmac.new(secret, payload, sha256).hexdigest(), idealised: a keyed       *)
(* polynomial digest over the characters, written as four hex digits.  It  *)
(* keeps what the code relies on: the digest is a function of key and      *)
(* payload, it is hexadecimal (it holds no "."), and changing the key or   *)
(* one character of the payload changes it.                                *)
(***************************************************************************)
RECURSIVE PowMod(_, _)
PowMod(b, e) ==
    IF e = 0 THEN 1
    ELSE LET h == PowMod(b, e \div 2)
         IN  IF e % 2 = 0 THEN (h * h) % 32749 ELSE (((h * h) % 32749) * b) % 32749

\* the sum of CharCode[text[i]] * 31^(hi - i) over lo..hi, modulo a prime
RECURSIVE PolyHash(_, _, _)
PolyHash(text, lo, hi) ==
    IF lo > hi THEN 0
    ELSE IF lo = hi THEN CharCode[text[lo]]
    ELSE LET mid == (lo + hi) \div 2
         IN  (PolyHash(text, lo, mid) * PowMod(31, hi - mid)
              + PolyHash(text, mid + 1, hi)) % 32749

Hex4(n) ==
    <<HexDigits[((n \div 4096) % 16) + 1], HexDigits[((n \div 256) % 16) + 1],
      HexDigits[((n \div 16) % 16) + 1], HexDigits[(n % 16) + 1]>>

Hmac(secret, payload) ==
    Hex4((PolyHash(secret, 1, Len(secret)) * 7919
          + PolyHash(payload, 1, Len(payload))) % 32749)

\* WebSocketClient.sign_message
sign_message(secret, message) ==
    LET payload == Dumps(to_dict(message))
        signature == Hmac(secret, payload)
    IN  payload \o <<".">> \o signature

(***************************************************************************)
(* Inputs of the codec: envelopes, secrets, and the texts a peer can put   *)
(* on the wire.                                                            *)
(***************************************************************************)
Secrets == {<<"k", "1">>, <<"k", "2">>}

Timestamps ==
    {Now - ExpiryTolerance - 1, Now - ExpiryTolerance, Now - ExpiryTolerance + 1, Now,
     Now + ExpiryTolerance - 1, Now + ExpiryTolerance, Now + ExpiryTolerance + 1}

MessageIds == {<<"u", "1">>, <<"a", ".", "b">>}

Msg(type) == JObj(<<Member(K_type, JStr(type))>>)
MsgWith(type, key, val) ==
    JObj(<<Member(K_type, JStr(type)), Member(key, JStr(val))>>)

Messages ==
    {Msg(AUTHENTIFICATION),
     MsgWith(PING, K_id, <<"a", "b", "c">>),
     MsgWith(PONG, K_id, <<"a", "b", "c">>),
     MsgWith(NOTIFICATION, K_data, <<"o", "k">>),
     MsgWith(NOTIFICATION, K_data, <<"v", ".", "2">>),
     Msg(<<"h", "e", "l", "l", "o">>)}

Envelopes ==
    {WsMessage(JInt(ts), JStr(id), m) :
        ts \in Timestamps, id \in MessageIds, m \in Messages}

\* JSON texts that are not envelopes
NotAnObject == {JArr(<<>>), JInt(5), JStr(<<"h", "i">>)}
MissingField ==
    {JObj(<<Member(K_timestamp, JInt(Now)), Member(K_message_id, JStr(<<"u", "1">>))>>),
     JObj(<<Member(K_message_id, JStr(<<"u", "1">>)), Member(K_message, Msg(PING))>>),
     JObj(<<>>)}
OddField ==
    {\* a timestamp that is a string
     to_dict(WsMessage(JStr(<<"n", "o", "w">>), JStr(<<"u", "1">>), Msg(PING))),
     \* a message that is not an object
     to_dict(WsMessage(JInt(Now), JStr(<<"u", "1">>), JInt(5)))}
NotJson == {<<"o", "o", "p", "s">>, <<"{">>, <<>>}

\* the values json.loads can return in this model
JsonDomain ==
    {to_dict(e) : e \in Envelopes} \cup NotAnObject \cup MissingField \cup OddField

DumpsTable == [v \in JsonDomain |-> Dumps(v)]

\* json.loads(text): the value whose JSON text this is, or JSONDecodeError
Loads(text) ==
    LET vs == {v \in JsonDomain : DumpsTable[v] = text}
    IN  IF vs = {} THEN [ok |-> FALSE, v |-> JInt(0)]
        ELSE [ok |-> TRUE, v |-> CHOOSE v \in vs : TRUE]

(***************************************************************************)
(* verify_message: what it hands back.  status "frame" is the returned     *)
(* WsMessage, "none" is None (log is the warning logged), "raise" is an    *)
(* exception leaving the function (log is its type).                       *)
(***************************************************************************)
NoFrame == WsMessage(JInt(0), JStr(<<>>), JObj(<<>>))
Verified(frame) == [status |-> "frame", log |-> "", frame |-> frame]
Rejected(log) == [status |-> "none", log |-> log, frame |-> NoFrame]
Raised(exc) == [status |-> "raise", log |-> exc, frame |-> NoFrame]

\* lines 70-79: json.loads and the three subscripts, under
\* except (json.JSONDecodeError, KeyError)
ParsePayload(payload) ==
    LET parsed == Loads(payload)
        frame_dict == parsed.v
    IN  IF ~parsed.ok THEN Rejected("Failed to parse message")
        ELSE IF frame_dict.t # "obj" THEN Raised("TypeError")
        ELSE IF ~(HasKey(frame_dict, K_message) /\ HasKey(frame_dict, K_timestamp)
                  /\ HasKey(frame_dict, K_message_id))
             THEN Rejected("Failed to parse message")
        ELSE Verified(WsMessage(GetKey(frame_dict, K_timestamp),
                                GetKey(frame_dict, K_message_id),
                                GetKey(frame_dict, K_message)))

\* the expiry test with the bound itself counted as expired
CheckTimestampInclusive(frame, now) ==
    IF frame.timestamp.t # "int" THEN Raised("TypeError")
    ELSE IF Abs(now - frame.timestamp.n) >= ExpiryTolerance THEN Rejected("Message expired")
    ELSE Verified(frame)

\* lines 81-87: abs(now - frame.timestamp) > 30
CheckTimestamp(frame, now) ==
    IF frame.timestamp.t # "int" THEN Raised("TypeError")
    ELSE IF Abs(now - frame.timestamp.n) > ExpiryTolerance THEN Rejected("Message expired")
    ELSE Verified(frame)

\* verify_message without the comparison of the signature
verify_messageNoSignature(secret, data, now) ==
    LET parts == Split(data, ".")
    IN  IF Len(parts) # 2 THEN Rejected("Invalid message format")
        ELSE LET parsed == ParsePayload(parts[1])
             IN  IF parsed.status # "frame" THEN parsed
                 ELSE CheckTimestamp(parsed.frame, now)

\* verify_message with a format test that only asks for a delimiter, and
\* takes the text before the first and after the last
verify_messageAnyDelimiter(secret, data, now) ==
    LET parts == Split(data, ".")
    IN  IF Len(parts) < 2 THEN Rejected("Invalid message format")
        ELSE LET payload == parts[1]
                 signature == parts[Len(parts)]
                 expected_sig == Hmac(secret, payload)
             IN  IF expected_sig # signature THEN Rejected("Invalid signature")
                 ELSE LET parsed == ParsePayload(payload)
                      IN  IF parsed.status # "frame" THEN parsed
                          ELSE CheckTimestamp(parsed.frame, now)

\* WebSocketClient.verify_message
verify_message(secret, data, now) ==
    LET parts == Split(data, ".")
    IN  IF Len(parts) # 2 THEN Rejected("Invalid message format")
        ELSE LET payload == parts[1]
                 signature == parts[2]
                 expected_sig == Hmac(secret, payload)
             IN  IF expected_sig # signature THEN Rejected("Invalid signature")
                 ELSE LET parsed == ParsePayload(payload)
                      IN  IF parsed.status # "frame" THEN parsed
                          ELSE CheckTimestamp(parsed.frame, now)

(***************************************************************************)
(* The Magic 8-Ball command (cogs/magiceightball.py).  hashlib.sha1 is     *)
(* taken as an ideal digest: the polynomial hash of the text.              *)
(***************************************************************************)
LowerCase == SubSeq(Alphabet, 11, 36)
UpperCase ==
    <<"A", "B", "C", "D", "E", "F", "G", "H", "I", "J", "K", "L", "M", "N", "O", "P",
      "Q", "R", "S", "T", "U", "V", "W", "X", "Y", "Z">>

\* the set of the items of a sequence
Range(seq) == {seq[i] : i \in DOMAIN seq}

\* re.sub(r"[^a-zA-Z0-9]", "", args)
RECURSIVE RemoveSpecial(_)
RemoveSpecial(args) ==
    IF args = <<>> THEN <<>>
    ELSE IF Head(args) \in Range(LowerCase) \cup Range(UpperCase) \cup Range(Digits)
         THEN <<Head(args)>> \o RemoveSpecial(Tail(args))
         ELSE RemoveSpecial(Tail(args))

\* str.lower()
Lower(text) ==
    [i \in DOMAIN text |->
        IF text[i] \in Range(UpperCase)
        THEN LowerCase[CHOOSE j \in DOMAIN UpperCase : UpperCase[j] = text[i]]
        ELSE text[i]]

\* the question as it is hashed, with only the case folded
ParsedKeepSpecial(args) == Lower(args)

\* line 40: parsed = re.sub(r"[^a-zA-Z0-9]", "", args).lower()
Parsed(args) == Lower(RemoveSpecial(args))

\* int(hashlib.sha1(text.encode("utf-8")).hexdigest(), 16)
Sha1Int(text) == PolyHash(text, 1, Len(text))

\* lines 45-49: the index of the answer set, 1 for self.answers[0] (yes) and
\* 2 for self.answers[1] (no)
AnswerSetIndex(day, args, author_id) ==
    LET message_string == day \o <<".">> \o Parsed(args) \o <<".">> \o Decimal(author_id)
        hashed_message == Sha1Int(message_string)
    IN  (hashed_message % 2) + 1

\* data/8ball_answers.json: the yes answers and the no answers
Answers == <<<<"Yes!", "Absolutely">>, <<"No!", "Definitely not">>>>

\* lines 53-55: the title of the embed
Title(args) ==
    IF Len(args) <= MaxTitle THEN args
    ELSE SubSeq(args, 1, TitleKeep) \o <<" ", "[", ".", ".", ".", "]">>

\* what the command is called with: datetime.today(), ctx.author.id and the
\* question
Days ==
    {<<"2", "0", "2", "6", "-", "1", "1", "-", "0", "1">>,
     <<"2", "0", "2", "6", "-", "1", "1", "-", "0", "2">>}
AuthorIds == {7, 42}
Questions ==
    {<<"I", "s", " ", "i", "t">>, <<"I", "S", " ", "I", "T", ".">>,
     <<"i", "s", "-", "i", "t">>, <<"i", "s", "i", "t">>,
     <<"i", "s", " ", "i", "t", " ", "2">>, <<"n", "o">>}
BallInputs == [day : Days, author_id : AuthorIds, args : Questions]

\* no embed sent yet
NoEmbed == [title |-> <<>>, description |-> <<>>, answer_set |-> 0]

(***************************************************************************)
(* State.                                                                  *)
(***************************************************************************)
VARIABLES
    \* WebSocketClient fields
    running, connected, reconnect_delay, ws,
    \* transports[t]: "open" or "closed", for every transport the server accepted;
    \* ws is an index into it, 0 for None
    transports,
    \* where run() is suspended, and the asyncio.sleep it is in
    pc, sleepFor, sleepLeft,
    \* the frame handed to ws.send and not yet written
    out,
    \* the caller of stop(): where it is, and where run() was when it called
    stopPc, stopAt,
    \* what the client wrote: <<transport, frame>>, in order
    sent,
    \* inbound frames delivered so far, and the loop variable of listen(): the
    \* frame it read last (index in InboundFrames, 0 outside listen()), and
    \* whether handle_message was called for it (a call that raised shows in
    \* lastEnd instead)
    nrecv, listenMessage, frameHandled,
    \* history: consecutive failed connects, and how the cycle run() is in
    \* ended ("none" while it has not)
    fails, lastEnd,
    \* the codec on its own: input envelope and secret, wire text, where the
    \* text came from, and what verify_message handed back
    cPc, cSecret, cEnv, cWire, cOrigin, cRes,
    \* Client.websocket is set (not None); how a send_message called by another
    \* task ended; what a command wrapped with requires_websocket did
    websocket, sendRes, command,
    \* Client.close(): "none" before the call, "stopping" while it awaits
    \* websocket.stop(), "closed" once super().close() ran, or the exception
    \* that ended it
    closeRes,
    \* the Magic 8-Ball command: the inputs of two invocations (day, author id,
    \* question) and the embed each of them sent
    ballIn, ballOut,
    \* the transport self.ws refers to: its peer has stopped sending (answers
    \* to keepalive pings included), and where the library's keepalive is
    \* ("idle", "pinged": a ping is out, "timed_out": no pong came in time)
    silent, keepalive

clientVars ==
    <<running, connected, reconnect_delay, ws, transports, pc, sleepFor, sleepLeft,
      out, stopPc, stopAt, sent, nrecv, listenMessage, frameHandled, fails, lastEnd>>
codecVars == <<cPc, cSecret, cEnv, cWire, cOrigin, cRes>>
appVars == <<websocket, sendRes, command, closeRes>>
ballVars == <<ballIn, ballOut>>
liveVars == <<silent, keepalive>>
vars == <<clientVars, codecVars, appVars, ballVars, liveVars>>

\* WebSocketClient.__init__
ClientInit ==
    /\ running = FALSE
    /\ connected = FALSE
    /\ reconnect_delay = MinDelay
    /\ ws = 0
    /\ transports = <<>>
    /\ pc = "init"
    /\ sleepFor = 0
    /\ sleepLeft = 0
    /\ out = <<>>
    /\ stopPc = "idle"
    /\ stopAt = "none"
    /\ sent = <<>>
    /\ nrecv = 0
    /\ listenMessage = 0
    /\ frameHandled = FALSE
    /\ fails = 0
    /\ lastEnd = "none"

\* Client.__init__: no WebSocketClient yet; no send and no command so far
NoCommand == [called |-> FALSE, body |-> FALSE, errors |-> 0, ret |-> ""]
AppIdle ==
    /\ websocket = FALSE
    /\ sendRes = "none"
    /\ command = NoCommand
    /\ closeRes = "none"

\* the 8-Ball has not been asked
BallIdle ==
    /\ ballIn = [i \in 1..2 |->
                    [day |-> <<"2", "0", "2", "6", "-", "1", "1", "-", "0", "1">>,
                     author_id |-> 7, args |-> <<"n", "o">>]]
    /\ ballOut = [i \in 1..2 |-> NoEmbed]

\* no transport, so no peer and no keepalive
LiveIdle ==
    /\ silent = FALSE
    /\ keepalive = "idle"

CodecIdle ==
    /\ cPc = "idle"
    /\ cSecret = <<"k", "1">>
    /\ cEnv = NoFrame
    /\ cWire = <<>>
    /\ cOrigin = "none"
    /\ cRes = Rejected("")

(***************************************************************************)
(* The codec on its own: sign an envelope, or take a text from the wire,   *)
(* and verify it.                                                          *)
(***************************************************************************)
\* characters a frame's byte is changed to
TamperBytes == {".", "x", "0", "}"}

\* correctly signed frames are built over these first parts
ForgedPayloads ==
    {Dumps(v) : v \in NotAnObject \cup MissingField \cup OddField} \cup NotJson

\* texts with no delimiter, or with more than one
RawWires ==
    {<<"h", "e", "l", "l", "o">>, <<"a", ".", "b", ".", "c">>, <<".", ".">>, <<>>}

CodecInit ==
    /\ ClientInit
    /\ AppIdle
    /\ BallIdle
    /\ LiveIdle
    /\ cPc = "input"
    /\ cSecret \in Secrets
    /\ cEnv \in Envelopes
    /\ cWire = <<>>
    /\ cOrigin = "none"
    /\ cRes = Rejected("")

CodecSign ==
    /\ cPc = "input"
    /\ cWire' = sign_message(cSecret, cEnv)
    /\ cOrigin' = "sign"
    /\ cPc' = "wire"
    /\ UNCHANGED <<cSecret, cEnv, cRes, clientVars, appVars, ballVars, liveVars>>

CodecForge ==
    /\ cPc = "input"
    /\ \E payload \in ForgedPayloads :
           cWire' = payload \o <<".">> \o Hmac(cSecret, payload)
    /\ cOrigin' = "forge"
    /\ cPc' = "wire"
    /\ UNCHANGED <<cSecret, cEnv, cRes, clientVars, appVars, ballVars, liveVars>>

CodecRaw ==
    /\ cPc = "input"
    /\ cWire' \in RawWires
    /\ cOrigin' = "raw"
    /\ cPc' = "wire"
    /\ UNCHANGED <<cSecret, cEnv, cRes, clientVars, appVars, ballVars, liveVars>>

\* one character of the payload portion of a signed frame is changed
CodecTamper ==
    /\ cPc = "wire"
    /\ cOrigin = "sign"
    /\ \E i \in 1..Len(Dumps(to_dict(cEnv))) :
           \E b \in TamperBytes \ {cWire[i]} :
              cWire' = [cWire EXCEPT ![i] = b]
    /\ cOrigin' = "tamper"
    /\ UNCHANGED <<cPc, cSecret, cEnv, cRes, clientVars, appVars, ballVars, liveVars>>

CodecVerify ==
    /\ cPc = "wire"
    /\ cRes' = verify_message(cSecret, cWire, Now)
    /\ cPc' = "verified"
    /\ UNCHANGED <<cSecret, cEnv, cWire, cOrigin, clientVars, appVars, ballVars, liveVars>>

CodecNext == CodecSign \/ CodecForge \/ CodecRaw \/ CodecTamper \/ CodecVerify

CodecSpec == CodecInit /\ [][CodecNext]_vars

(***************************************************************************)
(* The client.  asyncio runs one task at a time and switches only at an    *)
(* await that suspends, so an action is the code from one suspension to    *)
(* the next: the transport handshake, ws.send, the read of the next        *)
(* inbound frame, asyncio.sleep and ws.close.                              *)
(***************************************************************************)
\* Config.secret, and str(uuid.uuid4()) of the n-th frame sent
ClientSecret == <<"k", "1">>
Uuid(n) == <<"u">> \o Decimal(n)

\* what the server puts on the transport
Forged(payload) == payload \o <<".">> \o Hmac(ClientSecret, payload)
Inbound(ts, m) == sign_message(ClientSecret, WsMessage(JInt(ts), JStr(<<"u", "1">>), m))

InboundFrames ==
    <<Inbound(Now, MsgWith(PING, K_id, <<"a", "b", "c">>)),
      Inbound(Now, MsgWith(NOTIFICATION, K_data, <<"o", "k">>)),
      Inbound(Now, MsgWith(PONG, K_id, <<"a", "b", "c">>)),
      \* expired
      Inbound(Now - ExpiryTolerance - 1, MsgWith(PING, K_id, <<"a", "b", "c">>)),
      \* signed with another secret
      sign_message(<<"k", "2">>,
                   WsMessage(JInt(Now), JStr(<<"u", "1">>), MsgWith(PING, K_id, <<"a", "b", "c">>))),
      \* no delimiter; a payload that holds the delimiter
      <<"h", "e", "l", "l", "o">>,
      Inbound(Now, MsgWith(NOTIFICATION, K_data, <<"v", ".", "2">>)),
      \* correctly signed, and not an envelope
      Forged(Dumps(JArr(<<>>))),
      Forged(Dumps(JObj(<<>>))),
      Forged(Dumps(to_dict(WsMessage(JStr(<<"n", "o", "w">>), JStr(<<"u", "1">>), Msg(PING))))),
      Forged(<<"o", "o", "p", "s">>),
      \* an envelope whose message is not an object
      Inbound(Now, JInt(5)),
      \* expired, and signed with another secret
      sign_message(<<"k", "2">>,
                   WsMessage(JInt(Now - ExpiryTolerance - 1), JStr(<<"u", "1">>),
                             MsgWith(PING, K_id, <<"a", "b", "c">>)))>>

\* listen(): verify_message(message, self.secret) of every frame the server
\* can put on the transport
InboundVerified ==
    [k \in DOMAIN InboundFrames |-> verify_message(ClientSecret, InboundFrames[k], Now)]

\* handle_message answering a ping with the frame's own id, not the ping's
handle_messageOwnId(frame) ==
    LET msg == frame.message
        msg_type == Get(msg, K_type)
    IN  IF msg.t # "obj" THEN [kind |-> "raise", reply |-> JNull]
        ELSE IF msg_type = JStr(PING)
             THEN [kind |-> "pong",
                   reply |-> JObj(<<Member(K_type, JStr(PONG)), Member(K_id, frame.message_id)>>)]
        ELSE [kind |-> "log", reply |-> JNull]

\* WebSocketClient.handle_message, up to its first await: "raise" is an
\* exception (msg.get on a value that is no dict), "pong" the reply to send,
\* "log" a branch that only logs
handle_message(frame) ==
    LET msg == frame.message
        msg_type == Get(msg, K_type)
    IN  IF msg.t # "obj" THEN [kind |-> "raise", reply |-> JNull]
        ELSE IF msg_type = JStr(PING)
             THEN [kind |-> "pong",
                   reply |-> JObj(<<Member(K_type, JStr(PONG)), Member(K_id, Get(msg, K_id))>>)]
        ELSE [kind |-> "log", reply |-> JNull]

\* WebSocketClient.send_message, up to await self.ws.send(signed): the
\* signed frame handed to the transport
send_message(message) ==
    sign_message(ClientSecret,
                 WsMessage(JInt(Now), JStr(Uuid(Len(sent) + 1)), message))

\* a backoff that grows by the minimum delay
NextDelayLinear(d) == Min(d + MinDelay, MaxReconnectDelay)

\* the backoff without its cap
NextDelayNoCap(d) == d * 2

\* the exponential backoff of run()
NextDelay(d) == Min(d * 2, MaxReconnectDelay)

\* the loop of run() without its test of running
ReLoopAlways == pc' = "handshake" /\ lastEnd' = "none"

\* run(): "while self.running:" and, inside the loop, connect() up to its
\* await of websockets.connect
ReLoop ==
    IF running' THEN pc' = "handshake" /\ lastEnd' = "none"
    ELSE pc' = "done" /\ UNCHANGED lastEnd

\* run() leaving its loop at the end of every cycle
AfterCycleNoRetry(end) ==
    /\ lastEnd' = end
    /\ listenMessage' = 0
    /\ frameHandled' = FALSE
    /\ pc' = "done"
    /\ UNCHANGED <<connected, sleepFor, sleepLeft>>

\* run(): the end of a cycle, from "except Exception" to asyncio.sleep, or
\* out of the loop when running is false
AfterCycle(end) ==
    /\ lastEnd' = end
    /\ listenMessage' = 0
    /\ frameHandled' = FALSE
    /\ IF running
       THEN /\ connected' = FALSE
            /\ pc' = "sleep"
            /\ sleepFor' = reconnect_delay
            /\ sleepLeft' = reconnect_delay
       ELSE /\ pc' = "done"
            /\ UNCHANGED <<connected, sleepFor, sleepLeft>>

\* stop(), up to await self.ws.close(); the transport is closing from here on
stop ==
    /\ running' = FALSE
    /\ connected' = FALSE
    /\ transports' = IF ws # 0 THEN [transports EXCEPT ![ws] = "closed"] ELSE transports

\* Client.on_ready, up to the start of the task of run(): load_features
\* makes the WebSocketClient
OnReady ==
    /\ ~websocket
    /\ websocket' = TRUE
    /\ UNCHANGED <<clientVars, codecVars, sendRes, command, closeRes, ballVars, liveVars>>

\* run() is started
RunStart ==
    /\ websocket
    /\ pc = "init"
    /\ running' = TRUE
    /\ ReLoop
    /\ UNCHANGED <<connected, reconnect_delay, ws, transports, sleepFor, sleepLeft, out,
                   stopPc, stopAt, sent, nrecv, listenMessage, frameHandled, fails, codecVars, appVars, ballVars, liveVars>>

\* connect() without the reset of reconnect_delay
HandshakeOkNoReset ==
    /\ pc = "handshake"
    /\ Len(transports) < MaxTransports
    /\ transports' = Append(transports, "open")
    /\ ws' = Len(transports) + 1
    /\ connected' = TRUE
    /\ silent' = FALSE
    /\ keepalive' = "idle"
    /\ fails' = 0
    /\ out' = send_message(Msg(AUTHENTIFICATION))
    /\ pc' = "auth_send"
    /\ UNCHANGED <<running, reconnect_delay, sleepFor, sleepLeft, stopPc, stopAt, sent,
                   nrecv, listenMessage, frameHandled, lastEnd, codecVars, appVars, ballVars>>

\* connect() without the auth frame: straight to listen()
HandshakeOkNoAuth ==
    /\ pc = "handshake"
    /\ Len(transports) < MaxTransports
    /\ transports' = Append(transports, "open")
    /\ ws' = Len(transports) + 1
    /\ connected' = TRUE
    /\ silent' = FALSE
    /\ keepalive' = "idle"
    /\ reconnect_delay' = MinDelay
    /\ fails' = 0
    /\ out' = <<>>
    /\ pc' = "listen"
    /\ UNCHANGED <<running, sleepFor, sleepLeft, stopPc, stopAt, sent, nrecv,
                   listenMessage, frameHandled, lastEnd, codecVars, appVars, ballVars>>

\* connect(): websockets.connect returned a transport; up to the ws.send of
\* the auth frame
HandshakeOk ==
    /\ pc = "handshake"
    /\ Len(transports) < MaxTransports
    /\ transports' = Append(transports, "open")
    /\ ws' = Len(transports) + 1
    /\ connected' = TRUE
    /\ silent' = FALSE
    /\ keepalive' = "idle"
    /\ reconnect_delay' = MinDelay
    /\ fails' = 0
    /\ out' = send_message(Msg(AUTHENTIFICATION))
    /\ pc' = "auth_send"
    /\ UNCHANGED <<running, sleepFor, sleepLeft, stopPc, stopAt, sent, nrecv,
                   listenMessage, frameHandled, lastEnd, codecVars, appVars, ballVars>>

\* connect(): websockets.connect raised; connect re-raises and run catches
HandshakeFail ==
    /\ pc = "handshake"
    /\ fails' = Min(fails + 1, MaxFails)
    /\ AfterCycle("connect_failed")
    /\ UNCHANGED <<running, reconnect_delay, ws, transports, out, stopPc, stopAt, sent,
                   nrecv, codecVars, appVars, ballVars, liveVars>>

\* connect(): the ws.send of the auth frame returns, and listen() waits for
\* a frame; or it raises on a closed transport
AuthSendDone ==
    /\ pc = "auth_send"
    /\ out' = <<>>
    /\ IF transports[ws] = "open"
       THEN /\ sent' = Append(sent, <<ws, out>>)
            /\ pc' = "listen"
            /\ UNCHANGED <<connected, sleepFor, sleepLeft, lastEnd, listenMessage, frameHandled>>
       ELSE /\ AfterCycle("auth_failed")
            /\ UNCHANGED sent
    /\ UNCHANGED <<running, reconnect_delay, ws, transports, stopPc, stopAt, nrecv,
                   fails, codecVars, appVars, ballVars, liveVars>>

\* listen(): one inbound frame is read, verified and handled
ListenFrame ==
    /\ pc = "listen"
    /\ transports[ws] = "open"
    /\ ~silent
    /\ nrecv < MaxFrames
    /\ \E k \in DOMAIN InboundFrames :
          LET frame == InboundVerified[k]
              handled == handle_message(frame.frame)
          IN  /\ nrecv' = nrecv + 1
              /\ IF frame.status = "frame" /\ handled.kind = "pong"
                 THEN /\ listenMessage' = k
                      /\ frameHandled' = (frame.status = "frame")
                      /\ out' = send_message(handled.reply)
                      /\ pc' = "pong_send"
                      /\ UNCHANGED <<connected, sleepFor, sleepLeft, lastEnd>>
                 ELSE IF frame.status = "none"
                         \/ (frame.status = "frame" /\ handled.kind = "log")
                 THEN /\ listenMessage' = k
                      /\ frameHandled' = (frame.status = "frame")
                      /\ UNCHANGED <<out, pc, connected, sleepFor, sleepLeft, lastEnd>>
                 \* an exception of verify_message or handle_message: "except
                 \* Exception" of listen() ends the loop
                 ELSE /\ AfterCycle(IF frame.status = "raise" THEN "verify_error"
                                                               ELSE "handler_error")
                      /\ UNCHANGED out
    /\ UNCHANGED <<running, reconnect_delay, ws, transports, stopPc, stopAt, sent,
                   fails, codecVars, appVars, ballVars, liveVars>>

\* listen(): the transport is closed, the iteration ends
ListenClosed ==
    /\ pc = "listen"
    /\ transports[ws] = "closed"
    /\ AfterCycle("closed")
    /\ UNCHANGED <<running, reconnect_delay, ws, transports, out, stopPc, stopAt, sent,
                   nrecv, fails, codecVars, appVars, ballVars, liveVars>>

\* handle_message(): the ws.send of the pong returns and listen() waits for
\* the next frame; or it raises ConnectionClosed, which ends listen()
PongSendDone ==
    /\ pc = "pong_send"
    /\ out' = <<>>
    /\ IF transports[ws] = "open"
       THEN /\ sent' = Append(sent, <<ws, out>>)
            /\ pc' = "listen"
            /\ UNCHANGED <<connected, sleepFor, sleepLeft, lastEnd, listenMessage, frameHandled>>
       ELSE /\ AfterCycle("send_failed")
            /\ UNCHANGED sent
    /\ UNCHANGED <<running, reconnect_delay, ws, transports, stopPc, stopAt, nrecv,
                   fails, codecVars, appVars, ballVars, liveVars>>

\* time passes while run() is in asyncio.sleep
Tick ==
    /\ pc = "sleep"
    /\ sleepLeft > 0
    /\ sleepLeft' = Max(0, sleepLeft - TickLen)
    /\ UNCHANGED <<running, connected, reconnect_delay, ws, transports, pc, sleepFor, out,
                   stopPc, stopAt, sent, nrecv, listenMessage, frameHandled, fails, lastEnd, codecVars, appVars, ballVars, liveVars>>

\* run() without the stop() at the maximum delay: it retries for ever
SleepDoneNoGiveUp ==
    /\ pc = "sleep"
    /\ sleepLeft = 0
    /\ sleepFor' = 0
    /\ reconnect_delay' = NextDelay(reconnect_delay)
    /\ UNCHANGED <<running, connected, transports>>
    /\ ReLoop
    /\ UNCHANGED <<ws, sleepLeft, out, stopPc, stopAt, sent, nrecv, listenMessage, frameHandled,
                   fails, codecVars, appVars, ballVars, liveVars>>

\* run(): asyncio.sleep returns; the delay is doubled, or the connection is
\* given up with stop()
SleepDone ==
    /\ pc = "sleep"
    /\ sleepLeft = 0
    /\ sleepFor' = 0
    /\ IF reconnect_delay < MaxReconnectDelay
       THEN /\ reconnect_delay' = NextDelay(reconnect_delay)
            /\ UNCHANGED <<running, connected, transports>>
            /\ ReLoop
       ELSE /\ stop
            /\ pc' = IF ws # 0 THEN "giveup_close" ELSE "done"
            /\ UNCHANGED <<reconnect_delay, lastEnd>>
    /\ UNCHANGED <<ws, sleepLeft, out, stopPc, stopAt, sent, nrecv, listenMessage, frameHandled,
                   fails, codecVars, appVars, ballVars, liveVars>>

\* run(): the ws.close() of the stop() it called returns, and the loop ends
GiveUpCloseDone ==
    /\ pc = "giveup_close"
    /\ UNCHANGED running
    /\ ReLoop
    /\ UNCHANGED <<connected, reconnect_delay, ws, transports, sleepFor, sleepLeft, out,
                   stopPc, stopAt, sent, nrecv, listenMessage, frameHandled, fails, codecVars, appVars, ballVars, liveVars>>

\* another task calls stop()
StopCall ==
    /\ websocket
    /\ stopPc = "idle"
    /\ stop
    /\ stopAt' = pc
    /\ stopPc' = IF ws # 0 THEN "closing" ELSE "done"
    /\ UNCHANGED <<reconnect_delay, ws, pc, sleepFor, sleepLeft, out, sent, nrecv,
                   listenMessage, frameHandled, fails, lastEnd, codecVars, appVars, ballVars, liveVars>>

\* the ws.close() of that stop() returns
StopCloseDone ==
    /\ stopPc = "closing"
    /\ stopPc' = "done"
    /\ UNCHANGED <<running, connected, reconnect_delay, ws, transports, pc, sleepFor,
                   sleepLeft, out, stopAt, sent, nrecv, listenMessage, frameHandled, fails, lastEnd,
                   codecVars, appVars, ballVars, liveVars>>

\* the server, or the network, closes a transport
ServerClose ==
    /\ \E t \in DOMAIN transports :
          /\ transports[t] = "open"
          /\ transports' = [transports EXCEPT ![t] = "closed"]
    /\ UNCHANGED <<running, connected, reconnect_delay, ws, pc, sleepFor, sleepLeft, out,
                   stopPc, stopAt, sent, nrecv, listenMessage, frameHandled, fails, lastEnd, codecVars, appVars, ballVars, liveVars>>

Init == ClientInit /\ CodecIdle /\ AppIdle /\ BallIdle /\ LiveIdle

Next ==
    \/ OnReady
    \/ RunStart
    \/ HandshakeOk
    \/ HandshakeFail
    \/ AuthSendDone
    \/ ListenFrame
    \/ ListenClosed
    \/ PongSendDone
    \/ Tick
    \/ SleepDone
    \/ GiveUpCloseDone
    \/ StopCall
    \/ StopCloseDone
    \/ ServerClose

Spec == Init /\ [][Next]_vars

\* the event loop resumes run() when its timer fires and when ws.close()
\* returns (close_timeout bounds it)
FairSpec ==
    Spec /\ WF_vars(Tick) /\ WF_vars(SleepDone) /\ WF_vars(GiveUpCloseDone)

(***************************************************************************)
(* The client with the tasks around it: a task that calls send_message,    *)
(* and a command wrapped with requires_websocket.                          *)
(***************************************************************************)
\* what the other task sends
OtherMessage == MsgWith(NOTIFICATION, K_data, <<"o", "k">>)

\* another task calls send_message(OtherMessage): RuntimeError when self.ws
\* is None; otherwise ws.send writes the frame, or raises ConnectionClosed on
\* a closed transport.  The transport writes frames in the order of the
\* calls of ws.send, so a call made while a send of run() is pending is
\* written after it.
SendCall ==
    /\ websocket
    /\ sendRes = "none"
    /\ ~(pc \in {"auth_send", "pong_send"} /\ transports[ws] = "open")
    /\ IF ws = 0
       THEN sendRes' = "RuntimeError: WebSocket not connected" /\ UNCHANGED sent
       ELSE IF transports[ws] = "open"
       THEN sendRes' = "sent" /\ sent' = Append(sent, <<ws, send_message(OtherMessage)>>)
       ELSE sendRes' = "ConnectionClosed" /\ UNCHANGED sent
    /\ UNCHANGED <<running, connected, reconnect_delay, ws, transports, pc, sleepFor,
                   sleepLeft, out, stopPc, stopAt, nrecv, listenMessage, frameHandled, fails, lastEnd,
                   codecVars, websocket, command, closeRes, ballVars, liveVars>>

\* the body is run without the test
requires_websocketNoTest(has_websocket, is_connected) ==
    [called |-> TRUE, body |-> TRUE, errors |-> 0, ret |-> "result"]

\* utils/decorators.py, wrapper of requires_websocket: whether the body was
\* run, how many error embeds were sent, and what the wrapper returned
requires_websocket(has_websocket, is_connected) ==
    IF ~has_websocket \/ ~is_connected
    THEN [called |-> TRUE, body |-> FALSE, errors |-> 1, ret |-> "None"]
    ELSE [called |-> TRUE, body |-> TRUE, errors |-> 0, ret |-> "result"]

\* a command wrapped with requires_websocket is invoked
Command ==
    /\ ~command.called
    /\ command' = requires_websocket(websocket, connected)
    /\ UNCHANGED <<clientVars, codecVars, websocket, sendRes, closeRes, ballVars, liveVars>>

AppNext == Next \/ SendCall \/ Command

AppSpec == Init /\ [][AppNext]_vars

(***************************************************************************)
(* The client with Client.close() (core/client.py): the bot is shut down   *)
(* at any moment, also before on_ready has run.                            *)
(***************************************************************************)
\* Client.close(), up to its first suspension: self.websocket.stop() is
\* called.  Before load_features self.websocket is None and the attribute
\* access raises; super().close() is not reached
CloseCall ==
    /\ closeRes = "none"
    /\ stopPc = "idle"
    /\ IF websocket
       THEN /\ stop
            /\ stopAt' = pc
            /\ stopPc' = IF ws # 0 THEN "closing" ELSE "done"
            /\ closeRes' = "stopping"
            /\ UNCHANGED <<reconnect_delay, ws, pc, sleepFor, sleepLeft, out, sent, nrecv,
                           listenMessage, frameHandled, fails, lastEnd>>
       ELSE /\ closeRes' = "AttributeError"
            /\ UNCHANGED clientVars
    /\ UNCHANGED <<codecVars, websocket, sendRes, command, ballVars, liveVars>>

\* Client.close(): websocket.stop() has returned, super().close() runs
CloseSuper ==
    /\ closeRes = "stopping"
    /\ stopPc = "done"
    /\ closeRes' = "closed"
    /\ UNCHANGED <<clientVars, codecVars, websocket, sendRes, command, ballVars, liveVars>>

CloseNext == Next \/ CloseCall \/ CloseSuper

CloseSpec == Init /\ [][CloseNext]_vars

(***************************************************************************)
(* The client with the keepalive of the transport library, as connect()    *)
(* asks for it: websockets.connect(uri, ping_interval=60, ping_timeout=10) *)
(* sends a ping frame every ping_interval and closes the transport when    *)
(* the pong has not come within ping_timeout.                              *)
(***************************************************************************)
InSession == ws # 0 /\ transports[ws] = "open"

\* the peer stops sending: no frames, and no pongs
PeerSilent ==
    /\ InSession
    /\ ~silent
    /\ silent' = TRUE
    /\ UNCHANGED <<clientVars, codecVars, appVars, ballVars, keepalive>>

\* ping_interval has passed: the keepalive writes a ping on the transport
KeepalivePing ==
    /\ InSession
    /\ keepalive = "idle"
    /\ keepalive' = "pinged"
    /\ UNCHANGED <<clientVars, codecVars, appVars, ballVars, silent>>

\* the peer answers the ping
KeepalivePong ==
    /\ InSession
    /\ keepalive = "pinged"
    /\ ~silent
    /\ keepalive' = "idle"
    /\ UNCHANGED <<clientVars, codecVars, appVars, ballVars, silent>>

\* a keepalive that waits for its pong without end
KeepaliveTimeoutNever ==
    /\ InSession
    /\ keepalive = "pinged"
    /\ keepalive' = "timed_out"
    /\ UNCHANGED <<clientVars, codecVars, appVars, ballVars, silent>>

\* ping_timeout has passed without the pong: the keepalive closes the
\* transport
KeepaliveTimeout ==
    /\ InSession
    /\ keepalive = "pinged"
    /\ keepalive' = "timed_out"
    /\ transports' = [transports EXCEPT ![ws] = "closed"]
    /\ UNCHANGED <<running, connected, reconnect_delay, ws, pc, sleepFor, sleepLeft, out,
                   stopPc, stopAt, sent, nrecv, listenMessage, frameHandled, fails, lastEnd,
                   codecVars, appVars, ballVars, silent>>

LiveNext ==
    \/ Next
    \/ PeerSilent
    \/ KeepalivePing
    \/ KeepalivePong
    \/ KeepaliveTimeout

\* the timers of the event loop fire (the backoff sleep, the keepalive's
\* interval and timeout), and a task whose await is over is resumed
LiveSpec ==
    /\ Init /\ [][LiveNext]_vars
    /\ WF_vars(Tick) /\ WF_vars(SleepDone) /\ WF_vars(GiveUpCloseDone)
    /\ WF_vars(KeepalivePing) /\ WF_vars(KeepaliveTimeout)
    /\ WF_vars(AuthSendDone) /\ WF_vars(PongSendDone) /\ WF_vars(ListenClosed)

(***************************************************************************)
(* The Magic 8-Ball asked twice.                                           *)
(***************************************************************************)
BallInit ==
    /\ ClientInit
    /\ CodecIdle
    /\ websocket = TRUE
    /\ sendRes = "none"
    /\ command = NoCommand
    /\ closeRes = "none"
    /\ LiveIdle
    /\ ballIn \in [1..2 -> BallInputs]
    /\ ballOut = [i \in 1..2 |-> NoEmbed]

\* MagicEightBallCommand.magic_eight_ball, invocation i
Ask(i) ==
    /\ ballOut[i] = NoEmbed
    /\ LET in == ballIn[i]
           index == AnswerSetIndex(in.day, in.args, in.author_id)
           answer_set == Answers[index]
       IN  \E j \in 1..Len(answer_set) :
              ballOut' = [ballOut EXCEPT ![i] =
                            [title |-> Title(in.args),
                             description |-> <<"8-ball", answer_set[j]>>,
                             answer_set |-> index]]
    /\ UNCHANGED <<clientVars, codecVars, appVars, ballIn, liveVars>>

BallNext == \E i \in 1..2 : Ask(i)

BallSpec == BallInit /\ [][BallNext]_vars

(***************************************************************************)
(* Claims about the codec, under CodecSpec.                                *)
(***************************************************************************)
WithinTolerance(e) == Abs(Now - e.timestamp.n) <= ExpiryTolerance

\* C1: round trip.  For every envelope whose timestamp is within the
\* tolerance and every secret, verify_message of sign_message of the
\* envelope, under the same secret, returns an envelope with the same
\* timestamp, message_id and message.
C1_RoundTrip ==
    (cPc = "verified" /\ cOrigin = "sign" /\ WithinTolerance(cEnv))
        => (cRes.status = "frame" /\ cRes.frame = cEnv)

\* C9: verify_message never raises: whatever the wire text, it hands a
\* frame or a rejection back to its caller.
C9_VerifyNeverRaises ==
    cPc = "verified" => cRes.status # "raise"

\* C10: tamper detection.  After any one character of the payload portion
\* of a signed frame is changed, verify_message rejects the frame and the
\* reason is the signature mismatch.
C10_TamperIsBadSignature ==
    (cPc = "verified" /\ cOrigin = "tamper")
        => (cRes.status = "none" /\ cRes.log = "Invalid signature")

(***************************************************************************)
(* Claims about the client, under Spec and FairSpec.                       *)
(***************************************************************************)
AllClosed == \A t \in DOMAIN transports : transports[t] = "closed"

\* C2: whenever stop() is called during a cycle of run() (while connect()
\* awaits the handshake or the auth send, while listen() runs, or during
\* the backoff wait), then once stop() and run() have both finished no
\* transport is open and connected is false.
C2_StopLeavesClosed ==
    (/\ stopPc = "done"
     /\ pc = "done"
     /\ stopAt \in {"handshake", "auth_send", "listen", "pong_send", "sleep"})
        => (~connected /\ AllClosed)

\* C3: as long as no connect has succeeded, the wait after the k-th failed
\* connect (k = 0, 1, ...) is min(5 * 2^k, 30) seconds: 5, 10, 20, 30.
C3_BackoffSequence ==
    (pc = "sleep" /\ ws = 0)
        => (/\ fails >= 1
            /\ sleepFor = Min(MinDelay * Pow2(fails - 1), MaxReconnectDelay))

C3_FourthWaitIsCapped ==
    pc = "sleep" /\ ws = 0 /\ fails = 4 /\ sleepFor = MaxReconnectDelay

\* C4: from the moment connect() has opened the transport to the end of
\* that session reconnect_delay is the minimum, and the wait that follows
\* the session is the minimum delay.
C4_ResetOnConnect ==
    /\ pc \in {"auth_send", "listen", "pong_send"} => reconnect_delay = MinDelay
    /\ (pc = "sleep" /\ lastEnd # "connect_failed") => sleepFor = MinDelay

\* the wait after a second session: reconnect_delay was doubled at least
\* once before that session's connect reset it
C4_WaitAfterReconnect ==
    pc = "sleep" /\ lastEnd = "closed" /\ ws = 2 /\ sleepFor = MinDelay

\* C5: escape valve.  A wait that ends with the delay at its maximum ends
\* with running false and run() on its way out; once running is false
\* run() makes no connect attempt; there are never more than four failed
\* connects in a row; and run() terminates once it waits at the maximum.
C5_EscapeValve ==
    /\ [](fails <= 4)
    /\ [][(pc = "sleep" /\ reconnect_delay >= MaxReconnectDelay /\ pc' # "sleep")
             => (~running' /\ pc' \in {"giveup_close", "done"})]_vars
    /\ [][(pc \notin {"init", "handshake"} /\ ~running)
             => (~running' /\ pc' # "handshake")]_vars
    /\ ((pc = "sleep" /\ reconnect_delay >= MaxReconnectDelay) ~> (pc = "done"))

\* run() has given up by itself after four failed connects
C5_Abandoned ==
    pc = "done" /\ stopPc = "idle" /\ ~running /\ fails = 4 /\ ws = 0

\* C6: once stop() has been called during the backoff wait, run() makes no
\* further connect attempt.
C6_NoConnectAfterStopInWait ==
    [][stopAt = "sleep" => pc' # "handshake"]_vars

C6_StoppedInWaitAndReturned ==
    stopAt = "sleep" /\ pc = "done" /\ lastEnd = "connect_failed"

\* C7: when stop() is called during the backoff wait, run() can leave the
\* wait at once: it does not need the rest of the delay to pass.
C7_StopInterruptsWait ==
    (pc = "sleep" /\ stopAt = "sleep") => ENABLED SleepDone

\* the inbound frame k fails verification without an exception
VerifyRejects(k) ==
    k # 0 /\ InboundVerified[k].status = "none"

\* C8: a frame that fails verification never stops the receive loop: in
\* the step that reads it listen() sends nothing and goes on waiting for
\* the next frame.
C8_VerifyFailureKeepsListening ==
    [][(/\ nrecv' = nrecv + 1
        /\ (lastEnd' = "verify_error" \/ VerifyRejects(listenMessage')))
          => (pc' = "listen" /\ sent' = sent /\ out' = out)]_vars
(***************************************************************************)
(* More claims about the codec, under CodecSpec.                           *)
(***************************************************************************)
\* how many times the delimiter occurs in a wire text
DelimiterCount(text) == Cardinality({i \in 1..Len(text) : text[i] = "."})

\* C11: expiry boundary.  A correctly signed frame with one delimiter is
\* rejected as expired exactly when its timestamp is more than 30 seconds
\* away from the receiver's clock, in the past or in the future: 31 seconds
\* away is rejected, 29 and 30 seconds away are accepted.
C11_ExpiryBoundary ==
    (cPc = "verified" /\ cOrigin = "sign" /\ DelimiterCount(cWire) = 1)
        => IF Abs(Now - cEnv.timestamp.n) > ExpiryTolerance
           THEN cRes.status = "none" /\ cRes.log = "Message expired"
           ELSE cRes.status = "frame" /\ cRes.frame = cEnv

\* an envelope exactly 30 seconds old has been accepted
C11_AcceptedAtTheBound ==
    /\ cPc = "verified" /\ cOrigin = "sign"
    /\ cEnv.timestamp.n = Now - ExpiryTolerance
    /\ cRes.status = "frame"

\* C12: malformed frame.  Every wire text that does not hold exactly one
\* delimiter (none, or two or more) is rejected by verify_message as a
\* malformed frame, whatever its signature and its payload are.
C12_MalformedFrame ==
    (cPc = "verified" /\ DelimiterCount(cWire) # 1)
        => (cRes.status = "none" /\ cRes.log = "Invalid message format")

\* a text with two delimiters has been rejected as malformed
C12_TwoDelimitersRejected ==
    /\ cPc = "verified" /\ cOrigin = "raw"
    /\ DelimiterCount(cWire) = 2
    /\ cRes.log = "Invalid message format"

(***************************************************************************)
(* More claims about the client, under Spec and FairSpec.                  *)
(***************************************************************************)
\* the inbound frame k passes verification and is a ping
VerifiedPing(k) ==
    /\ k # 0
    /\ LET r == InboundVerified[k]
       IN  /\ r.status = "frame"
           /\ r.frame.message.t = "obj"
           /\ Get(r.frame.message, K_type) = JStr(PING)

\* the pong that answers the inbound ping k: its id is the ping's
ExpectedPong(k) ==
    JObj(<<Member(K_type, JStr(PONG)),
           Member(K_id, Get(InboundVerified[k].frame.message, K_id))>>)

\* the messages the client and the task around it send, and for each of
\* them the envelopes signed with the client's secret and stamped with the
\* client's clock that carry it
ClientMessages ==
    {Msg(AUTHENTIFICATION), MsgWith(NOTIFICATION, K_data, <<"o", "k">>)}
        \cup {ExpectedPong(k) : k \in {j \in DOMAIN InboundFrames : VerifiedPing(j)}}
SignedEnvelopes ==
    [m \in ClientMessages |->
        {sign_message(ClientSecret, WsMessage(JInt(Now), JStr(Uuid(n)), m)) :
            n \in 1..(MaxFrames + MaxTransports + 2)}]
SignedEnvelopeOf(wire, m) == wire \in SignedEnvelopes[m]

\* the wire text is a signed pong with the correlation id of the inbound
\* frame k
PongFor(wire, k) == SignedEnvelopeOf(wire, ExpectedPong(k))

\* C13: ping is answered by pong with the same id.  In the step that reads a
\* verified ping the client hands one pong with the ping's id to the
\* transport; no other frame is read while that send is pending, and the
\* send ends with that pong written once (or with the transport closed).
C13_PingAnsweredByPong ==
    /\ [][(nrecv' = nrecv + 1 /\ VerifiedPing(listenMessage'))
            => (pc' = "pong_send" /\ PongFor(out', listenMessage'))]_vars
    /\ [][pc = "pong_send" => nrecv' = nrecv]_vars
    /\ [][(pc = "pong_send" /\ pc' # "pong_send")
            => \/ sent' = Append(sent, <<ws, out>>) /\ pc' = "listen"
               \/ transports[ws] = "closed"]_vars

\* the pong for ping "abc" is the last frame written, and listen() is back
\* at its read
C13_PongWritten ==
    /\ pc = "listen" /\ VerifiedPing(listenMessage)
    /\ Len(sent) = 2
    /\ sent[2][1] = ws
    /\ PongFor(sent[2][2], listenMessage)

\* run() is inside listen(); the ways listen() ends
InListen == pc \in {"listen", "pong_send"}
SessionEnds == {"closed", "verify_error", "handler_error", "send_failed"}

\* C16: every end of the receive loop leads to a retry.  When listen() ends
\* and stop() has not been called, run() sleeps for the current backoff
\* delay; it leaves that wait only when the delay has passed, and unless
\* stop() is called it then makes another connect attempt.
C16_SessionEndRetries ==
    /\ [][(InListen /\ ~InListen' /\ stopPc = "idle")
            => (pc' = "sleep" /\ lastEnd' \in SessionEnds
                /\ sleepFor' = reconnect_delay /\ sleepLeft' = reconnect_delay)]_vars
    /\ [][(pc = "sleep" /\ pc' # "sleep") => sleepLeft = 0]_vars
    /\ ((pc = "sleep" /\ lastEnd \in SessionEnds /\ stopPc = "idle")
            ~> (pc = "handshake" \/ stopPc # "idle"))

\* a session that received a frame has ended, the wait is over and run()
\* is at its next connect attempt
C16_ReconnectAttempt ==
    /\ pc = "handshake" /\ stopPc = "idle"
    /\ ws = 1 /\ transports[1] = "closed"
    /\ nrecv > 0
    /\ reconnect_delay = NextDelay(MinDelay)

\* C18: abandonment is reported.  run() returns normally only after
\* stop() was called: when the supervisor has given up through the escape
\* valve, run() ends with a failure its caller can tell from that return.
C18_AbandonmentIsReported ==
    ~(pc = "done" /\ stopPc = "idle")

\* the transports that are open
OpenTransports == {t \in DOMAIN transports : transports[t] = "open"}

\* C21: one transport at a time.  At most one transport opened by the
\* client is open in any state: the transport of a session that ended is
\* closed before connect() opens the next one.
C21_OneOpenTransport ==
    Cardinality(OpenTransports) <= 1

\* C22: the connected flag.  connected is true only while run() is between
\* a successful connect() and the end of that session's receive loop; it
\* is false in the backoff wait and when run() has returned.
C22_ConnectedOnlyInSession ==
    /\ connected => pc \in {"auth_send", "listen", "pong_send"}
    /\ pc \in {"sleep", "done"} => ~connected

\* the inbound frames that hold exactly one delimiter, a signature equal to
\* the keyed hash of the payload under the client's secret, and an envelope
\* whose timestamp is within the tolerance of the time of receipt
SignatureMatches(wire) ==
    LET d == CHOOSE i \in DOMAIN wire : wire[i] = "."
    IN  Hmac(ClientSecret, SubSeq(wire, 1, d - 1)) = SubSeq(wire, d + 1, Len(wire))
EnvelopeInTime(wire) ==
    LET d == CHOOSE i \in DOMAIN wire : wire[i] = "."
        parsed == Loads(SubSeq(wire, 1, d - 1))
    IN  /\ parsed.ok
        /\ parsed.v.t = "obj"
        /\ HasKey(parsed.v, K_timestamp)
        /\ GetKey(parsed.v, K_timestamp).t = "int"
        /\ Abs(Now - GetKey(parsed.v, K_timestamp).n) <= ExpiryTolerance
GenuineFrames ==
    {k \in DOMAIN InboundFrames :
        /\ DelimiterCount(InboundFrames[k]) = 1
        /\ SignatureMatches(InboundFrames[k])
        /\ EnvelopeInTime(InboundFrames[k])}

\* the inbound frames whose rejection does not name the first check they
\* fail, in the order format, signature, parse, expiry
ChecksOutOfOrder ==
    {k \in DOMAIN InboundFrames :
        LET wire == InboundFrames[k]
            log == InboundVerified[k].log
        IN  ~ /\ DelimiterCount(wire) # 1 => log = "Invalid message format"
              /\ (DelimiterCount(wire) = 1 /\ ~SignatureMatches(wire))
                    => log = "Invalid signature"
              /\ log \in {"Failed to parse message", "Message expired"}
                    => (DelimiterCount(wire) = 1 /\ SignatureMatches(wire))
              /\ log = "Message expired"
                    => Loads(SubSeq(wire, 1, (CHOOSE i \in DOMAIN wire : wire[i] = ".") - 1)).ok}

\* C23: no handler action for an unverified frame.  handle_message is
\* called, and a pong is sent, only for an inbound frame with exactly one
\* delimiter, the right signature and a timestamp within 30 seconds; and
\* every rejection names the first failed check in the order format,
\* signature, parse, expiry.
C23_OnlyVerifiedFramesHandled ==
    /\ frameHandled => listenMessage \in GenuineFrames
    /\ pc = "pong_send" => frameHandled
    /\ ChecksOutOfOrder = {}

\* a verified notification has been handled after another frame was read
C23_NotificationHandled ==
    /\ pc = "listen" /\ frameHandled
    /\ nrecv = 2
    /\ ~VerifiedPing(listenMessage)
    /\ Get(InboundVerified[listenMessage].frame.message, K_type) = JStr(NOTIFICATION)

\* C24: the backoff delay stays in its range.  In every reachable state
\* reconnect_delay is one of 5, 10, 20, 30: never below the minimum delay,
\* never above max_reconnect_delay.
C24_DelayInRange ==
    /\ reconnect_delay \in {5, 10, 20, 30}
    /\ MinDelay <= reconnect_delay /\ reconnect_delay <= MaxReconnectDelay

\* stop() was called during the wait of 10 seconds and run() has returned
\* with the delay doubled once more
C24_StoppedAtTwenty ==
    /\ pc = "done" /\ stopAt = "sleep"
    /\ reconnect_delay = 20

\* C25: Client.close() completes the shutdown in every lifecycle state.
\* Whether on_ready has made the websocket client or not, whether the run
\* loop is active or has stopped, close() ends with the underlying bot close
\* and never with an exception raised before it.
C25_CloseCompletes == closeRes \in {"none", "stopping", "closed"}

(***************************************************************************)
(* Claims about the client and the tasks around it, under AppSpec.         *)
(***************************************************************************)
\* the frames written on transport t, in order
WrittenOn(t) == SelectSeq(sent, LAMBDA e : e[1] = t)

\* C14: auth is the first frame.  Every successful connect hands a signed
\* envelope with the message {"type": "auth"} to the new transport, and on
\* every transport the first frame written is that envelope: no pong and
\* no frame of another task comes before it.
C14_AuthIsFirstFrame ==
    /\ [][Len(transports') > Len(transports)
            => (pc' = "auth_send" /\ SignedEnvelopeOf(out', Msg(AUTHENTIFICATION)))]_vars
    /\ [](\A t \in DOMAIN transports :
             WrittenOn(t) # <<>>
                 => SignedEnvelopeOf(WrittenOn(t)[1][2], Msg(AUTHENTIFICATION)))

\* on the second transport the auth frame has been written, and after it
\* the frame of the other task
C14_AuthThenOtherFrames ==
    /\ Len(transports) = 2
    /\ sendRes = "sent"
    /\ Len(WrittenOn(2)) >= 2
    /\ SignedEnvelopeOf(WrittenOn(2)[2][2], OtherMessage)

\* C15: send requires a session.  Before the first connect, during a
\* backoff wait and after stop(), send_message fails with the not-connected
\* error and writes nothing to any transport.
C15_SendFailsWithoutSession ==
    [][(sendRes' # sendRes /\ (pc \in {"init", "sleep"} \/ stopPc # "idle"))
          => (sendRes' = "RuntimeError: WebSocket not connected" /\ sent' = sent)]_vars

\* run() is in its backoff wait, or stop() has been called, or the
\* supervisor has abandoned the link
NoSession ==
    \/ pc = "sleep"
    \/ stopPc # "idle"
    \/ pc \in {"giveup_close", "done"}

\* C20: the websocket guard.  A wrapped command runs its body exactly when
\* the bot has a websocket client whose connected flag is true at the
\* check; otherwise it sends one error message and returns None.  With no
\* websocket client yet, in a backoff wait, and after stop() or
\* abandonment the body is not run.
C20_WebsocketGuard ==
    [][command' # command
          => /\ command'.body <=> (websocket /\ connected)
             /\ ~command'.body => (command'.errors = 1 /\ command'.ret = "None")
             /\ (~websocket \/ NoSession) => ~command'.body]_vars

(***************************************************************************)
(* Claims about the silent transport, under LiveSpec.                      *)
(***************************************************************************)
\* run() has begun a new cycle, or stop() has been called
NewCycle == pc = "handshake" \/ stopPc # "idle"

Folded(c) ==
    IF \E j \in DOMAIN UpperCase : UpperCase[j] = c
    THEN LowerCase[CHOOSE j \in DOMAIN UpperCase : UpperCase[j] = c]
    ELSE c
Normalised(args) ==
    LET kept == SelectSeq(args,
                    LAMBDA c : c \in Range(Digits) \cup Range(LowerCase) \cup Range(UpperCase))
    IN  [i \in DOMAIN kept |-> Folded(kept[i])]

\* both invocations have sent their embed, and they agree on the day, the
\* author and the normalised question
SameBallKey ==
    /\ ballOut[1] # NoEmbed /\ ballOut[2] # NoEmbed
    /\ ballIn[1].day = ballIn[2].day
    /\ ballIn[1].author_id = ballIn[2].author_id
    /\ Normalised(ballIn[1].args) = Normalised(ballIn[2].args)

\* C19: the answer set of the Magic 8-Ball is a function of the day, the
\* author id and the normalised question only: two invocations that agree
\* on these three answer from the same set (yes or no), whatever the case
\* and the special characters of the question and whichever answer of the
\* set is drawn.
C19_AnswerSetIsFunctionOfKey ==
    SameBallKey
        => /\ ballOut[1].answer_set = ballOut[2].answer_set
           /\ \A i \in 1..2 : ballOut[i].description[2] \in Range(Answers[ballOut[1].answer_set])

\* two spellings of one question got different answers from the same set
C19_TwoSpellingsSameSet ==
    /\ SameBallKey
    /\ ballIn[1].args # ballIn[2].args
    /\ ballOut[1].answer_set = ballOut[2].answer_set
    /\ ballOut[1].description # ballOut[2].description

=============================================================================
